---- MODULE Spec2Model ----
(***************************************************************************)
(* A model of pyntcloud's spatial structures: the VoxelGrid                *)
(* (structures/voxelgrid.py), the Octree (structures/octree.py, with the   *)
(* octree_level scalar field of scalar_fields/scalar_fields.py) and the    *)
(* Neighbourhood (structures/neighbourhood.py).                            *)
(*                                                                         *)
(* Numbers.  Coordinates are exact.  VoxelGrid coordinates are integers in *)
(* units of 0.001 (the padding of voxelgrid.py:42-43 is then Eps = 1);     *)
(* bounding-box values are kept in half units (value * HalfUnits) so that  *)
(* the "diff / 2" of the cube adjustment is exact, and an edge sequence is *)
(* a record [den, e] standing for the edges e[i] / den.  Arrays are        *)
(* 1-based here: axis 1, 2, 3 is the code's axis 0, 1, 2 (x, y, z) and     *)
(* structure[p][4] is the code's structure[p, 3].                          *)
(***************************************************************************)
EXTENDS Integers, Sequences, FiniteSets, TLC

VARIABLES voxelgrid, octree, early_stop, level_sf, neighbourhood, eigen,
          ror, sor, pt, pyntcloud, features, box, normals

vars == <<voxelgrid, octree, early_stop, level_sf, neighbourhood, eigen,
          ror, sor, pt, pyntcloud, features, box, normals>>

Axes == 1..3

MinOf(S) == CHOOSE m \in S : \A o \in S : m <= o

MaxOf(S) == CHOOSE m \in S : \A o \in S : m >= o

Column(points, a) == {points[p][a] : p \in DOMAIN points}

(***************************************************************************)
(*                              VoxelGrid                                  *)
(***************************************************************************)

\* Bounds of the VoxelGrid inputs.
MaxPoints == 2

MaxBins == 3

\* Coordinate values of the input points, in units of 0.001.
Coords == {0, 3}

\* Explicit edge sequences offered for an axis: one that lies strictly inside
\* the range of the coordinates, and one that exceeds the bounding box on
\* both sides (and is clipped to it).
EdgeSeqs == {<<1, 2>>, <<-3, 1, 5>>}

Points3D == {<<x, y, z>> : x \in Coords, y \in Coords, z \in Coords}

PointSeqs == UNION {[1..n -> Points3D] : n \in 1..MaxPoints}

\* x_y_z[i]: an int (a number of bins) or an array (the edges themselves).
IntSpec(n) == [kind |-> "int", n |-> n, edges |-> <<>>]

ArraySpec(e) == [kind |-> "array", n |-> 0, edges |-> e]

AxisSpecs == {IntSpec(n) : n \in 1..MaxBins} \cup {ArraySpec(e) : e \in EdgeSeqs}

\* The 0.001 of "np.min(points, axis=0) - 0.001", in units of 0.001.
Eps == 1

\* Bounding-box values are stored multiplied by 2 ("diff / 2" stays exact).
HalfUnits == 2

\* A mutant of xyzminOf: the padding left out.
xyzminOf_NoPadding(points) ==
    [a \in Axes |-> HalfUnits * MinOf(Column(points, a))]

\* xyzmin = np.min(points, axis=0) - 0.001, in half units.
xyzminOf(points) ==
    [a \in Axes |-> HalfUnits * (MinOf(Column(points, a)) - Eps)]

\* xyzmax = np.max(points, axis=0) + 0.001, in half units.
xyzmaxOf(points) ==
    [a \in Axes |-> HalfUnits * (MaxOf(Column(points, a)) + Eps)]

\* A mutant of CubeDiff: the sides are brought to the shortest side.
CubeDiff_Shortest(lo, hi) ==
    [a \in Axes |-> MinOf({hi[b] - lo[b] : b \in Axes}) - (hi[a] - lo[a])]

\* diff = max(xyzmax - xyzmin) - (xyzmax - xyzmin), in half units.
CubeDiff(lo, hi) ==
    [a \in Axes |-> MaxOf({hi[b] - lo[b] : b \in Axes}) - (hi[a] - lo[a])]

\* The bounding box <<xyzmin, xyzmax>> the constructor stores.
BoundingBox(points, bb_cuboid) ==
    LET lo == xyzminOf(points)
        hi == xyzmaxOf(points)
        diff == CubeDiff(lo, hi)
    IN  IF bb_cuboid
        THEN <<[a \in Axes |-> lo[a] - diff[a] \div HalfUnits],
               [a \in Axes |-> hi[a] + diff[a] \div HalfUnits]>>
        ELSE <<lo, hi>>

\* np.linspace(lo, hi, num = n + 1): edge i (0-based) is lo + i * (hi - lo) / n.
Linspace(lo, hi, n) ==
    [den |-> HalfUnits * n,
     e   |-> [i \in 1..(n + 1) |-> lo * n + (i - 1) * (hi - lo)]]

ClipValue(v, lo, hi) == IF v < lo THEN lo ELSE IF v > hi THEN hi ELSE v

\* np.clip(x_y_z[i], xyzmin[i], xyzmax[i]).
Clip(edges, lo, hi) ==
    [den |-> HalfUnits,
     e   |-> [i \in 1..Len(edges) |-> ClipValue(HalfUnits * edges[i], lo, hi)]]

\* The segments of one axis.
Segment(spec, lo, hi) ==
    IF spec.kind = "int" THEN Linspace(lo, hi, spec.n)
                         ELSE Clip(spec.edges, lo, hi)

\* np.searchsorted(segments, x), side = 'left', on sorted segments: the
\* number of edges strictly below x.
SearchSorted(seg, x) ==
    Cardinality({i \in DOMAIN seg.e : seg.e[i] < x * seg.den})

\* structure[:,3] = structure[:,0] + WIDTH * (structure[:,1] + HEIGHT * structure[:,2])
\* with WIDTH = len(segments[0]) - 1 and HEIGHT = len(segments[2]) - 1.
LinearIndex(segments, ix, iy, iz) ==
    LET WIDTH  == Len(segments[1].e) - 1
        HEIGHT == Len(segments[3].e) - 1
    IN  ix + WIDTH * (iy + HEIGHT * iz)

\* The (N, 4) structure array of build().
StructureOf(points, segments) ==
    [p \in DOMAIN points |->
        LET ix == SearchSorted(segments[1], points[p][1]) - 1
            iy == SearchSorted(segments[2], points[p][2]) - 1
            iz == SearchSorted(segments[3], points[p][3]) - 1
        IN  <<ix, iy, iz, LinearIndex(segments, ix, iy, iz)>>]

\* np.bincount raises ValueError on a negative entry.
BincountRaises(structure) == \E p \in DOMAIN structure : structure[p][4] < 0

\* np.bincount(np.concatenate((structure[:,3], np.arange(n_voxels)))) - 1,
\* a function on 0..top: bincount's result is as long as its largest entry + 1.
VectorOf(structure, n_voxels) ==
    LET top == MaxOf({structure[p][4] : p \in DOMAIN structure} \cup {n_voxels - 1})
    IN  [v \in 0..top |->
            Cardinality({p \in DOMAIN structure : structure[p][4] = v})
            + (IF v < n_voxels THEN 1 ELSE 0) - 1]

NoVoxelGrid ==
    [status |-> "none", points |-> <<>>, x_y_z |-> <<>>, bb_cuboid |-> FALSE,
     xyzmin |-> <<>>, xyzmax |-> <<>>, segments |-> <<>>, shape |-> <<>>,
     n_voxels |-> 0, structure |-> <<>>, vector |-> <<>>]

\* VoxelGrid.__init__ up to "if build:".
Constructed(points, x_y_z, bb_cuboid) ==
    LET bb       == BoundingBox(points, bb_cuboid)
        segments == [a \in Axes |-> Segment(x_y_z[a], bb[1][a], bb[2][a])]
        shape    == [a \in Axes |-> Len(segments[a].e) - 1]
    IN  [status |-> "unbuilt", points |-> points, x_y_z |-> x_y_z,
         bb_cuboid |-> bb_cuboid, xyzmin |-> bb[1], xyzmax |-> bb[2],
         segments |-> segments, shape |-> shape,
         n_voxels |-> shape[1] * shape[2] * shape[3],
         structure |-> <<>>, vector |-> <<>>]

\* VoxelGrid.build on the object vg: self.structure is set, then np.bincount
\* either raises (self.vector stays unset) or self.vector is set.
Built(vg) ==
    LET structure == StructureOf(vg.points, vg.segments)
    IN  IF BincountRaises(structure)
        THEN [vg EXCEPT !.status = "ValueError", !.structure = structure,
                        !.vector = <<>>]
        ELSE [vg EXCEPT !.status = "built", !.structure = structure,
                        !.vector = VectorOf(structure, vg.n_voxels)]

\* VoxelGrid(points, x_y_z, bb_cuboid, build): the constructor, which calls
\* build() itself when build is true.
VoxelGridNew ==
    /\ voxelgrid.status = "none"
    /\ \E points \in PointSeqs, sx \in AxisSpecs, sy \in AxisSpecs, sz \in AxisSpecs,
          bb_cuboid \in BOOLEAN, build \in BOOLEAN :
          voxelgrid' = IF build
                       THEN Built(Constructed(points, <<sx, sy, sz>>, bb_cuboid))
                       ELSE Constructed(points, <<sx, sy, sz>>, bb_cuboid)
    /\ UNCHANGED <<octree, early_stop, level_sf, neighbourhood, eigen,
                ror, sor, pt, pyntcloud, features, box, normals>>

\* voxelgrid.build() called on a constructed object.
VoxelGridBuild ==
    /\ voxelgrid.status \in {"unbuilt", "built", "ValueError"}
    /\ voxelgrid' = Built(voxelgrid)
    /\ UNCHANGED <<octree, early_stop, level_sf, neighbourhood, eigen,
                ror, sor, pt, pyntcloud, features, box, normals>>

(***************************************************************************)
(*                               Octree                                    *)
(*                                                                         *)
(* Octree coordinates are integers; every stored length is multiplied by   *)
(* OctScale, a power of two large enough for all the halvings of build()   *)
(* to be exact.  Column c (1-based) of structure is the code's column      *)
(* c - 1, the codes of level c - 1.                                        *)
(***************************************************************************)

\* Bounds of the Octree inputs.
MaxOctPoints == 3

MaxLevel == 4

\* The points offered to the Octree.
OctPool == {<<0, 0, 0>>, <<1, 0, 0>>, <<3, 0, 0>>, <<0, 3, 1>>, <<2, 1, 3>>, <<3, 3, 3>>}

OctPointSeqs == UNION {[1..n -> OctPool] : n \in 1..MaxOctPoints}

\* The early_stop argument of the constructor (its default).
StopArgs == {2}

\* What the name early_stop is bound to in the module of octree.py: the
\* module itself binds nothing; an embedding program may have bound None or
\* a number.
Unbound == [kind |-> "unbound", value |-> 0]

StopBindings ==
    {Unbound, [kind |-> "None", value |-> 0], [kind |-> "int", value |-> 2]}

RECURSIVE Pow2(_)
Pow2(n) == IF n = 0 THEN 1 ELSE 2 * Pow2(n - 1)

OctScale == Pow2(MaxLevel + 1)

\* points.min(0), points.max(0) and the cube adjustment of Octree.__init__.
OctBoundingBox(points, bb_cuboid) ==
    LET lo   == [a \in Axes |-> OctScale * MinOf(Column(points, a))]
        hi   == [a \in Axes |-> OctScale * MaxOf(Column(points, a))]
        diff == CubeDiff(lo, hi)
    IN  IF bb_cuboid
        THEN <<[a \in Axes |-> lo[a] - diff[a] \div 2],
               [a \in Axes |-> hi[a] + diff[a] \div 2]>>
        ELSE <<lo, hi>>

NoOctree ==
    [status |-> "none", points |-> <<>>, max_level |-> 0, bb_cuboid |-> FALSE,
     early_stop_arg |-> 0, xyzmin |-> <<>>, xyzmax |-> <<>>, structure |-> <<>>,
     id_level |-> 0, i |-> 0, level_ptp |-> <<>>, mid_points |-> <<>>]

\* Octree.__init__ up to self.build(), and build() up to its loop.  The
\* early_stop argument is received and stored nowhere.
OctreeEntered(points, max_level, bb_cuboid, early_stop_arg) ==
    LET bb == OctBoundingBox(points, bb_cuboid)
    IN  [status |-> "building", points |-> points, max_level |-> max_level,
         bb_cuboid |-> bb_cuboid, early_stop_arg |-> early_stop_arg,
         xyzmin |-> bb[1], xyzmax |-> bb[2],
         structure |-> [p \in DOMAIN points |-> [c \in 1..max_level |-> 0]],
         id_level |-> max_level, i |-> 0,
         level_ptp |-> [a \in Axes |-> (bb[2][a] - bb[1][a]) \div 2],
         mid_points |-> [p \in DOMAIN points |->
                            [a \in Axes |-> (bb[1][a] + bb[2][a]) \div 2]]]

\* A mutant of Bigger: the comparison turned round.
Bigger_Below(oc, p, a) == IF OctScale * oc.points[p][a] < oc.mid_points[p][a] THEN 1 ELSE 0

\* bigger = self.points > mid_points, as 0 / 1.
Bigger(oc, p, a) == IF OctScale * oc.points[p][a] > oc.mid_points[p][a] THEN 1 ELSE 0

\* A mutant of OctantCode: the bits of x and y exchanged.
OctantCode_Swapped(bx, by, bz) == ((bx * 2) + by) + (bz * (2 * 2))

\* ((bigger[:,1] * 2) + bigger[:,0]) + (bigger[:,2] * (2 * 2))
OctantCode(bx, by, bz) == ((by * 2) + bx) + (bz * (2 * 2))

\* The rows of structure cut to their first n columns.
Prefixes(structure, n) == {SubSeq(structure[p], 1, n) : p \in DOMAIN structure}

\* structure.ix[:, :i].groupby(columns).count().mean() < early_stop, with
\* columns = 0..i-1: the mean size of the groups of points that share the
\* codes of levels 0..i-1, i.e. N / (number of groups).
MeanBelow(structure, i, threshold) ==
    Len(structure) < threshold * Cardinality(Prefixes(structure, i))

\* self.structure.ix[:, :i]: label-based, so columns 0..i are kept.
Truncated(structure, i) ==
    [p \in DOMAIN structure |-> SubSeq(structure[p], 1, i + 1)]

\* One pass of the loop of build(), i = oc.i, on the name binding es.
LevelBuilt(oc, es) ==
    LET i         == oc.i
        level_ptp == [a \in Axes |-> oc.level_ptp[a] \div 2]
        mid       == [p \in DOMAIN oc.points |-> [a \in Axes |->
                        IF Bigger(oc, p, a) = 1
                        THEN oc.mid_points[p][a] + level_ptp[a]
                        ELSE oc.mid_points[p][a] - level_ptp[a]]]
        structure == [p \in DOMAIN oc.points |->
                        [oc.structure[p] EXCEPT ![i + 1] =
                            OctantCode(Bigger(oc, p, 1), Bigger(oc, p, 2),
                                       Bigger(oc, p, 3))]]
        recorded  == [oc EXCEPT !.level_ptp = level_ptp, !.mid_points = mid,
                                !.structure = structure]
    IN  IF es.kind = "unbound"
        THEN [recorded EXCEPT !.status = "NameError"]
        ELSE IF es.kind # "None" /\ i > 1 /\ MeanBelow(structure, i, es.value)
        THEN [recorded EXCEPT !.status = "built", !.id_level = i,
                              !.structure = Truncated(structure, i)]
        ELSE IF i + 1 = oc.max_level
        THEN [recorded EXCEPT !.status = "built", !.i = i + 1]
        ELSE [recorded EXCEPT !.i = i + 1]

\* Octree(points, max_level, bb_cuboid, early_stop) up to the first pass of
\* the loop of build(); with max_level = 0 the loop has no pass.
OctreeNew ==
    /\ octree.status = "none"
    /\ \E points \in OctPointSeqs, max_level \in 0..MaxLevel, bb_cuboid \in BOOLEAN,
          early_stop_arg \in StopArgs :
          LET oc == OctreeEntered(points, max_level, bb_cuboid, early_stop_arg)
          IN  octree' = IF max_level = 0 THEN [oc EXCEPT !.status = "built"] ELSE oc
    /\ UNCHANGED <<voxelgrid, early_stop, level_sf, neighbourhood, eigen,
                ror, sor, pt, pyntcloud, features, box, normals>>

\* The next pass of the loop of build().
OctreeBuildLevel ==
    /\ octree.status = "building"
    /\ octree' = LevelBuilt(octree, early_stop)
    /\ UNCHANGED <<voxelgrid, early_stop, level_sf, neighbourhood, eigen,
                ror, sor, pt, pyntcloud, features, box, normals>>

RECURSIVE LexLess(_, _)
LexLess(s, t) ==
    IF s = <<>> \/ t = <<>> THEN s = <<>> /\ t # <<>>
    ELSE Head(s) < Head(t) \/ (Head(s) = Head(t) /\ LexLess(Tail(s), Tail(t)))

NoLevelSf == [status |-> "none", level |-> 0, sf |-> <<>>]

\* Octree.get_level_as_sf(level): groupby on the columns 0..level-1, the
\* groups taken in the sorted order of their keys, the i-th group labelled i.
\* groupby raises ValueError on no key and KeyError on a missing column.
GetLevelAsSf(oc, level) ==
    IF level <= 0
    THEN [status |-> "ValueError", level |-> level, sf |-> <<>>]
    ELSE IF \E p \in DOMAIN oc.structure : level > Len(oc.structure[p])
    THEN [status |-> "KeyError", level |-> level, sf |-> <<>>]
    ELSE [status |-> "ok", level |-> level,
          sf |-> [p \in DOMAIN oc.points |->
                    Cardinality({k \in Prefixes(oc.structure, level) :
                        LexLess(k, SubSeq(oc.structure[p], 1, level))})]]

\* scalar_fields.octree_level(octree, level).
OctreeLevelOf(oc, level) ==
    IF level > oc.max_level
    THEN [status |-> "ValueError", level |-> level, sf |-> <<>>]
    ELSE GetLevelAsSf(oc, level)

\* octree_level(octree, level) on a built octree.
OctreeLevel ==
    /\ octree.status = "built"
    /\ \E level \in 0..(MaxLevel + 1) : level_sf' = OctreeLevelOf(octree, level)
    /\ UNCHANGED <<voxelgrid, octree, early_stop, neighbourhood, eigen,
                ror, sor, pt, pyntcloud, features, box, normals>>

(***************************************************************************)
(*                            Neighbourhood                                *)
(*                                                                         *)
(* The statements of Neighbourhood.__init__ and eigen_decomposition.       *)
(* Point indices are 1-based here: the code's index n is n + 1, and the    *)
(* placeholder index kdtree.query gives a missing neighbour (the code's N) *)
(* is N + 1.  The points offered lie on the x axis at integer              *)
(* coordinates, so that every distance is an integer and every covariance  *)
(* matrix is diagonal.                                                     *)
(***************************************************************************)

\* Bound of the Neighbourhood inputs.
MaxNbPoints == 3

NbCoords == {0, 1, 3}

NbPointSeqs == UNION {[1..n -> {<<x, 0, 0>> : x \in NbCoords}] : n \in 1..MaxNbPoints}

\* The distance kdtree.query gives a missing neighbour (inf).
Inf == -1

Perms3 == {s \in [1..3 -> 1..3] : \A a, b \in 1..3 : s[a] = s[b] => a = b}

Dist2(p, q) ==
    (p[1] - q[1]) * (p[1] - q[1]) + (p[2] - q[2]) * (p[2] - q[2])
    + (p[3] - q[3]) * (p[3] - q[3])

\* The euclidean distance (exact on the points offered).
Distance(p, q) == CHOOSE r \in 0..Dist2(p, q) : r * r = Dist2(p, q)

\* The rows kdtree.query(x, k) may give for the point q when k >= 2: its
\* min(k, N) nearest points of the tree (itself included) in the order of
\* their distances, points at equal distances in any order, then
\* placeholders.  A row is a pair <<d, i>> of k distances and k indices.
QueryRows(points, q, k) ==
    LET N == Len(points)
        m == IF k < N THEN k ELSE N
        dist(j) == Distance(points[q], points[j])
        nearest == {r \in [1..m -> 1..N] :
                       /\ \A a, b \in 1..m : r[a] = r[b] => a = b
                       /\ \A a \in 1..(m - 1) : dist(r[a]) <= dist(r[a + 1])
                       /\ \A j \in 1..N :
                             (\A a \in 1..m : r[a] # j) => dist(j) >= dist(r[m])}
    IN  {<<[a \in 1..k |-> IF a <= m THEN dist(r[a]) ELSE Inf],
           [a \in 1..k |-> IF a <= m THEN r[a] ELSE N + 1]>> : r \in nearest}

\* The results kdtree.query(kdtree.data, k) may give: a row for each point.
RECURSIVE QueryResults(_, _, _)
QueryResults(points, n, k) ==
    IF n = 0 THEN {<<>>}
    ELSE {Append(rows, row) : rows \in QueryResults(points, n - 1, k),
                              row \in QueryRows(points, n, k)}

\* neighbours.shape[1]^2 times the covariance matrix of the points idx of
\* points: cov_3D of eigen_decomposition, kept integral.
Cov3D(points, idx) ==
    LET n == Len(idx)
        sum(a) == LET RECURSIVE S(_)
                      S(j) == IF j = 0 THEN 0 ELSE points[idx[j]][a] + S(j - 1)
                  IN  S(n)
        sum2(a, b) == LET RECURSIVE S(_)
                          S(j) == IF j = 0 THEN 0
                                  ELSE points[idx[j]][a] * points[idx[j]][b] + S(j - 1)
                      IN  S(n)
    IN  [a \in Axes |-> [b \in Axes |-> n * sum2(a, b) - sum(a) * sum(b)]]

\* The permutation matrix whose column c is the unit vector of axis s[c].
PermMatrix(s) == [r \in Axes |-> [c \in Axes |-> IF r = s[c] THEN 1 ELSE 0]]

\* What np.linalg.eig returns for a diagonal matrix: its diagonal entries in
\* their order, and as columns the unit vectors of their axes.  A pair
\* <<eigenvalues, eigenvectors>>.
LinalgEig(cov) == <<[c \in Axes |-> cov[c][c]], PermMatrix(<<1, 2, 3>>)>>

\* The orders eigenvalues.argsort() may give for one row: the indices in
\* ascending order of the values, equal values in any order.
ArgSorts(w) == {s \in Perms3 : w[s[1]] <= w[s[2]] /\ w[s[2]] <= w[s[3]]}

\* eigenvectors[n, :, c]: column c.
ColumnOf(V, c) == [r \in Axes |-> V[r][c]]

\* A mutant of EigenSorted: the vectors indexed in the ascending order of
\* the values (eig_vec1 with sort[:,0], eig_vec3 with sort[:,2]).
EigenSorted_VectorsAscending(eigenvalues, eigenvectors, sort) ==
    [eig_val1 |-> [n \in DOMAIN eigenvalues |-> eigenvalues[n][sort[n][3]]],
     eig_val2 |-> [n \in DOMAIN eigenvalues |-> eigenvalues[n][sort[n][2]]],
     eig_val3 |-> [n \in DOMAIN eigenvalues |-> eigenvalues[n][sort[n][1]]],
     eig_vec1 |-> [n \in DOMAIN eigenvalues |-> ColumnOf(eigenvectors[n], sort[n][1])],
     eig_vec2 |-> [n \in DOMAIN eigenvalues |-> ColumnOf(eigenvectors[n], sort[n][2])],
     eig_vec3 |-> [n \in DOMAIN eigenvalues |-> ColumnOf(eigenvectors[n], sort[n][3])]]

\* Lines 44-50 of eigen_decomposition: the eigenvalues and the columns of the
\* eigenvectors taken at sort[:,2], sort[:,1], sort[:,0].
EigenSorted(eigenvalues, eigenvectors, sort) ==
    [eig_val1 |-> [n \in DOMAIN eigenvalues |-> eigenvalues[n][sort[n][3]]],
     eig_val2 |-> [n \in DOMAIN eigenvalues |-> eigenvalues[n][sort[n][2]]],
     eig_val3 |-> [n \in DOMAIN eigenvalues |-> eigenvalues[n][sort[n][1]]],
     eig_vec1 |-> [n \in DOMAIN eigenvalues |-> ColumnOf(eigenvectors[n], sort[n][3])],
     eig_vec2 |-> [n \in DOMAIN eigenvalues |-> ColumnOf(eigenvectors[n], sort[n][2])],
     eig_vec3 |-> [n \in DOMAIN eigenvalues |-> ColumnOf(eigenvectors[n], sort[n][1])]]

\* The results argsort may give for the rows 1..n of eigenvalues.
RECURSIVE SortResults(_, _)
SortResults(eigenvalues, n) ==
    IF n = 0 THEN {<<>>}
    ELSE {Append(rows, row) : rows \in SortResults(eigenvalues, n - 1),
                              row \in ArgSorts(eigenvalues[n])}

\* What np.linalg.eig returns for the neighbours of every point.
EigResults(points, indices) ==
    [n \in DOMAIN indices |-> LinalgEig(Cov3D(points, indices[n]))]

NoEigenFields ==
    [eig_val1 |-> <<>>, eig_val2 |-> <<>>, eig_val3 |-> <<>>,
     eig_vec1 |-> <<>>, eig_vec2 |-> <<>>, eig_vec3 |-> <<>>]

\* The outcomes of eigen_decomposition on the object nb: IndexError when
\* self.points[self.indices] meets a placeholder index, else the six arrays.
EigenOutcomes(nb) ==
    IF \E q \in DOMAIN nb.indices : \E a \in DOMAIN nb.indices[q] :
           nb.indices[q][a] > Len(nb.points)
    THEN {[nb EXCEPT !.status = "IndexError"]}
    ELSE LET e == EigResults(nb.points, nb.indices)
             eigenvalues == [n \in DOMAIN e |-> e[n][1]]
             eigenvectors == [n \in DOMAIN e |-> e[n][2]]
         IN  {[nb EXCEPT !.status = "built",
                         !.eig = EigenSorted(eigenvalues, eigenvectors, sort)] :
                 sort \in SortResults(eigenvalues, Len(eigenvalues))}

NoNeighbourhood ==
    [status |-> "none", points |-> <<>>, k_arg |-> 0, d |-> <<>>, i |-> <<>>,
     distances |-> <<>>, indices |-> <<>>, k |-> 0, eig |-> NoEigenFields]

\* Neighbourhood.__init__ up to the call of eigen_decomposition, on the
\* result <<d, i>> rows of the query.  With k = 1 the query gives
\* one-dimensional arrays and d[:,1:] raises IndexError.
Queried(points, k, rows) ==
    IF k = 1
    THEN [NoNeighbourhood EXCEPT !.status = "IndexError", !.points = points, !.k_arg = k]
    ELSE [status |-> "built", points |-> points, k_arg |-> k,
          d |-> [q \in DOMAIN rows |-> rows[q][1]],
          i |-> [q \in DOMAIN rows |-> rows[q][2]],
          distances |-> [q \in DOMAIN rows |-> Tail(rows[q][1])],
          indices |-> [q \in DOMAIN rows |-> Tail(rows[q][2])],
          k |-> k - 1, eig |-> NoEigenFields]

\* Neighbourhood(pyntcloud, k, eigen): the object built, or the error raised.
NeighbourhoodNew ==
    /\ neighbourhood.status = "none"
    /\ \E points \in NbPointSeqs, k \in 1..(MaxNbPoints + 1), eig \in BOOLEAN :
            \E rows \in (IF k = 1 THEN {<<>>} ELSE QueryResults(points, Len(points), k)) :
                LET nb == Queried(points, k, rows)
                IN  /\ neighbourhood' \in (IF eig /\ nb.status = "built"
                                           THEN EigenOutcomes(nb) ELSE {nb})
                    /\ UNCHANGED <<voxelgrid, octree, early_stop, level_sf, eigen,
                                ror, sor, pt, pyntcloud, features, box, normals>>

(***************************************************************************)
(* The sorting of eigen_decomposition as a function of what np.linalg.eig  *)
(* returned: a row of three eigenvalues and a matrix of three column       *)
(* eigenvectors for each point.                                            *)
(***************************************************************************)

\* Bound of the eigen decomposition inputs.
MaxEigPoints == 2

EigVals == {0, 1, 3}

EigMatrices == {PermMatrix(<<1, 2, 3>>), PermMatrix(<<2, 3, 1>>)}

NoEigen ==
    [status |-> "none", eigenvalues |-> <<>>, eigenvectors |-> <<>>, out |-> NoEigenFields]

EigenInputs ==
    UNION {{[status |-> "eig", eigenvalues |-> w, eigenvectors |-> V, out |-> NoEigenFields] :
               w \in [1..n -> [Axes -> EigVals]], V \in [1..n -> EigMatrices]} :
           n \in 1..MaxEigPoints}

\* Lines 42-50 of eigen_decomposition.
EigenDecompositionSort ==
    /\ eigen.status = "eig"
    /\ \E sort \in SortResults(eigen.eigenvalues, Len(eigen.eigenvalues)) :
           eigen' = [eigen EXCEPT !.status = "sorted",
                                  !.out = EigenSorted(eigen.eigenvalues,
                                                      eigen.eigenvectors, sort)]
    /\ UNCHANGED <<voxelgrid, octree, early_stop, level_sf, neighbourhood,
                ror, sor, pt, pyntcloud, features, box, normals>>

(***************************************************************************)
(*                       Radius outlier removal                            *)
(*                                                                         *)
(* radious_outlier_removal (neighbourhood.py:91-138) and clean_ROR         *)
(* (pyntcloud.py:605-632), on the points of the Neighbourhood section.  A  *)
(* radius is given in half units (r = r2 / 2) and only odd values are      *)
(* offered, so that no distance equals the radius.  The rows of the cloud  *)
(* are named by their index labels 1..N.                                   *)
(***************************************************************************)

\* The radii offered, in half units: 0.5, 1.5, 2.5.
RorRadii == {1, 3, 5}

\* kdtree.query(..., distance_upper_bound=r): a neighbour that is not closer
\* than r is a missing neighbour.
UpperBounded(d, r2) ==
    [q \in DOMAIN d |->
        [a \in DOMAIN d[q] |->
            IF d[q][a] # Inf /\ 2 * d[q][a] < r2 THEN d[q][a] ELSE Inf]]

\* ror_filter = np.any(np.isinf(distances), axis=1)
AnyIsInf(distances) ==
    [q \in DOMAIN distances |-> \E a \in DOMAIN distances[q] : distances[q][a] = Inf]

\* cloud[filtered]: the index labels of the rows a boolean mask selects.
RECURSIVE Selected(_, _)
Selected(filtered, n) ==
    IF n = 0 THEN <<>>
    ELSE IF filtered[n] THEN Append(Selected(filtered, n - 1), n)
         ELSE Selected(filtered, n - 1)

NoRor ==
    [status |-> "none", points |-> <<>>, k |-> 0, r |-> 0, distances |-> <<>>,
     ror_filter |-> <<>>, vertex |-> <<>>]

\* radious_outlier_removal(kdtree, k, r) on the rows of the query, then the
\* row selection of clean_ROR.  With k = 1 the query gives one-dimensional
\* arrays and np.any(..., axis=1) raises (AxisError, a ValueError); the cloud
\* is left as it was.
RorApplied(points, k, r2, rows) ==
    IF k = 1
    THEN [NoRor EXCEPT !.status = "ValueError", !.points = points, !.k = k, !.r = r2,
                       !.vertex = [q \in DOMAIN points |-> q]]
    ELSE LET distances == UpperBounded([q \in DOMAIN rows |-> rows[q][1]], r2)
             filtered  == AnyIsInf(distances)
         IN  [status |-> "ok", points |-> points, k |-> k, r |-> r2,
              distances |-> distances, ror_filter |-> filtered,
              vertex |-> Selected(filtered, Len(points))]

\* cloud.clean_ROR(kdtree, k, r) on a cloud and the kdtree of its points.
CleanROR ==
    /\ ror.status = "none"
    /\ \E points \in NbPointSeqs, k \in 1..(MaxNbPoints + 1), r2 \in RorRadii :
          \E rows \in (IF k = 1 THEN {<<>>} ELSE QueryResults(points, Len(points), k)) :
              ror' = RorApplied(points, k, r2, rows)
    /\ UNCHANGED <<voxelgrid, octree, early_stop, level_sf, neighbourhood, eigen,
                   sor, pt, pyntcloud, features, box, normals>>

(***************************************************************************)
(*                     Statistical outlier removal                         *)
(*                                                                         *)
(* Neighbourhood.filter_SOR (neighbourhood.py:53-89).  Its line 85 reads   *)
(* the free name distances, which neighbourhood.py binds nowhere: the call *)
(* ends in NameError unless the embedding program has bound that name in   *)
(* the module, and the model offers both, the bound name standing for the  *)
(* distances of the object.  z_max is given in half units (z_max = z2/2).  *)
(***************************************************************************)

\* The values of z_max offered, in half units: 1.0 and 2.0 (the default).
ZMaxs == {2, 4}

DistancesBindings == {"unbound", "self.distances"}

RECURSIVE SumOf(_)
SumOf(seq) == IF seq = <<>> THEN 0 ELSE Head(seq) + SumOf(Tail(seq))

\* abs(zscore(np.mean(distances, axis=1), ddof=1)) < z_max, without roots or
\* quotients: with S[q] the sum of row q and T the sum of all S, the mean of
\* row q deviates from the mean of the means by (N * S[q] - T) / (N * k), so
\* |z[q]| < z2 / 2 is 4 * (N - 1) * dev[q]^2 < z2^2 * (sum of all dev^2).  A
\* vector with an inf, one point or equal means has only nan z-scores, and
\* no nan is below z_max.
SorFilter(distances, z2) ==
    LET N      == Len(distances)
        S      == [q \in DOMAIN distances |-> SumOf(distances[q])]
        dev    == [q \in DOMAIN distances |-> N * S[q] - SumOf(S)]
        sq     == [q \in DOMAIN distances |-> dev[q] * dev[q]]
        hasInf == \E q \in DOMAIN distances : \E a \in DOMAIN distances[q] :
                      distances[q][a] = Inf
    IN  [q \in DOMAIN distances |->
            ~hasInf /\ 4 * (N - 1) * sq[q] < z2 * z2 * SumOf(sq)]

NoSor == [status |-> "none", z_max |-> 0, sor_filter |-> <<>>]

\* neighbourhood.filter_SOR(z_max) on a built Neighbourhood.
FilterSOR ==
    /\ neighbourhood.status = "built"
    /\ sor.status = "none"
    /\ \E z2 \in ZMaxs, binding \in DistancesBindings :
          sor' = IF binding = "unbound"
                 THEN [status |-> "NameError", z_max |-> z2, sor_filter |-> <<>>]
                 ELSE [status |-> "ok", z_max |-> z2,
                       sor_filter |-> SorFilter(neighbourhood.distances, z2)]
    /\ UNCHANGED <<voxelgrid, octree, early_stop, level_sf, neighbourhood, eigen,
                   ror, pt, pyntcloud, features, box, normals>>


(***************************************************************************)
(*                          Pass-through filter                            *)
(*                                                                         *)
(* PyntCloud.clean_PT (pyntcloud.py:635-659).  The pass_through function   *)
(* it calls lives in pyntcloud/filters/other_filters.py, which is not      *)
(* among the sources; PassThrough states it as the specification does.     *)
(* A bound is a record: a number, -inf or +inf; an argument that the call  *)
(* leaves out is Absent.                                                   *)
(***************************************************************************)

\* Bound of the pass-through inputs.
MaxPtPoints == 2

PtPool == {<<-1, 0, 2>>, <<0, 0, 0>>, <<1, 1, -1>>, <<0, 1, 1>>}

PtPointSeqs == UNION {[1..n -> PtPool] : n \in 1..MaxPtPoints}

Fin(v) == [kind |-> "fin", v |-> v]

Absent == [kind |-> "absent", v |-> 0]

\* The bound arguments a call may give: left out, 0 or 1.
PtArgs == {Absent, Fin(0), Fin(1)}

\* A mutant of DefaultMin: the lower bounds default to 0.
DefaultMin_Zero == Fin(0)

\* min_x=-np.inf, min_y=-np.inf, min_z=-np.inf
DefaultMin == [kind |-> "-inf", v |-> 0]

\* max_x=np.inf, max_y=np.inf, max_z=np.inf
DefaultMax == [kind |-> "+inf", v |-> 0]

\* bound <= x and x <= bound on numbers and infinities.
BoundLeq(b, x) == b.kind = "-inf" \/ (b.kind = "fin" /\ b.v <= x)

LeqBound(x, b) == b.kind = "+inf" \/ (b.kind = "fin" /\ x <= b.v)

\* pass_through(points, min_x, max_x, min_y, max_y, min_z, max_z): true where
\* min <= coordinate <= max on the three axes.
PassThrough(points, min, max) ==
    [q \in DOMAIN points |->
        \A a \in Axes : BoundLeq(min[a], points[q][a]) /\ LeqBound(points[q][a], max[a])]

NoPt ==
    [status |-> "none", points |-> <<>>, min |-> <<>>, max |-> <<>>,
     filtered |-> <<>>, vertex |-> <<>>]

\* cloud.clean_PT(min_x=.., max_x=.., ...): min and max are the arguments as
\* given, axis by axis.
PtApplied(points, min, max) ==
    LET lo       == [a \in Axes |-> IF min[a] = Absent THEN DefaultMin ELSE min[a]]
        hi       == [a \in Axes |-> IF max[a] = Absent THEN DefaultMax ELSE max[a]]
        filtered == PassThrough(points, lo, hi)
    IN  [status |-> "ok", points |-> points, min |-> min, max |-> max,
         filtered |-> filtered, vertex |-> Selected(filtered, Len(points))]

CleanPT ==
    /\ pt.status = "none"
    /\ \E points \in PtPointSeqs, min \in [Axes -> PtArgs], max \in [Axes -> PtArgs] :
          pt' = PtApplied(points, min, max)
    /\ UNCHANGED <<voxelgrid, octree, early_stop, level_sf, neighbourhood, eigen,
                   ror, sor, pyntcloud, features, box, normals>>


(***************************************************************************)
(*                        PyntCloud construction                           *)
(*                                                                         *)
(* PyntCloud.__init__ (pyntcloud.py:36-58) with the points setter (lines   *)
(* 90-94).  kwargs is its set of keys; the value under "points" is a       *)
(* DataFrame with some columns and rows, or an ndarray (which has no       *)
(* columns attribute); the value under any other key is named by the key.  *)
(***************************************************************************)

\* The keys offered for kwargs.
CloudKeys == {"points", "mesh", "kdtree", "my_octree", "voxelgrid_2"}

CloudColumns == {"x", "y", "z", "red"}

\* The x, y, z values offered for the rows of a DataFrame.
CloudRows == {<<(<<0, 0, 0>>)>>, <<(<<1, 2, 3>>), (<<3, 0, 1>>)>>}

CloudPoints ==
    {[kind |-> "DataFrame", columns |-> c, rows |-> r] :
        c \in SUBSET CloudColumns, r \in CloudRows}
    \cup {[kind |-> "ndarray", columns |-> {}, rows |-> r] : r \in CloudRows}

\* "kdtree" in key, "octree" in key, "voxelgrid" in key, on the keys offered.
KeyContains(key, word) ==
    <<key, word>> \in {<<"kdtree", "kdtree">>, <<"my_octree", "octree">>,
                       <<"voxelgrid_2", "voxelgrid">>}

\* A mutant of HasXYZ: one of the three columns is enough.
HasXYZ_Any(columns) == {"x", "y", "z"} \cap columns # {}

\* set(['x', 'y', 'z']).issubset(kwargs["points"].columns)
HasXYZ(columns) == {"x", "y", "z"} \subseteq columns

\* np.mean(self.points[["x", "y", "z"]].values, axis=0), as the column sums
\* and the number of rows.
CentroidOf(rows) ==
    [sum |-> [a \in Axes |-> SumOf([q \in DOMAIN rows |-> rows[q][a]])],
     n   |-> Len(rows)]

NoPyntCloud ==
    [status |-> "none", keys |-> {}, points |-> <<>>, lists_set |-> FALSE,
     kdtrees |-> {}, octrees |-> {}, voxelgrids |-> {}, attributes |-> {},
     centroid |-> <<>>]

\* PyntCloud(**kwargs): the object as the constructor leaves it, on its
\* return or at the error it raises.
PyntCloudOf(keys, points) ==
    LET entered == [NoPyntCloud EXCEPT !.keys = keys, !.points = points]
        listed  == [entered EXCEPT
                       !.lists_set  = TRUE,
                       !.kdtrees    = {key \in keys : KeyContains(key, "kdtree")},
                       !.octrees    = {key \in keys : ~KeyContains(key, "kdtree")
                                                      /\ KeyContains(key, "octree")},
                       !.voxelgrids = {key \in keys : ~KeyContains(key, "kdtree")
                                                      /\ ~KeyContains(key, "octree")
                                                      /\ KeyContains(key, "voxelgrid")},
                       !.attributes = {key \in keys : \A w \in {"kdtree", "octree", "voxelgrid"} :
                                                         ~KeyContains(key, w)}]
    IN  IF "points" \notin keys
        THEN [entered EXCEPT !.status = "ValueError", !.points = <<>>]
        ELSE IF points.kind # "DataFrame"
        THEN [entered EXCEPT !.status = "AttributeError"]
        ELSE IF ~HasXYZ(points.columns)
        THEN [entered EXCEPT !.status = "ValueError"]
        ELSE IF ~({"x", "y", "z"} \subseteq points.columns)
        THEN [listed EXCEPT !.status = "KeyError"]
        ELSE [listed EXCEPT !.status = "ok", !.centroid = CentroidOf(points.rows)]

PyntCloudNew ==
    /\ pyntcloud.status = "none"
    /\ \E keys \in SUBSET CloudKeys, points \in CloudPoints :
          pyntcloud' = PyntCloudOf(keys, points)
    /\ UNCHANGED <<voxelgrid, octree, early_stop, level_sf, neighbourhood, eigen,
                   ror, sor, pt, features, box, normals>>


(***************************************************************************)
(*                          Eigenvalue features                            *)
(*                                                                         *)
(* anisotropy, planarity and linearity of scalar_fields.py:173-180 on an   *)
(* array ev of eigenvalue rows (ev[n][1] is the code's ev[n, 0]).  A       *)
(* quotient is kept exact, as the record [num, den] of its numerator and   *)
(* denominator; den = 0 stands for the division by zero.                   *)
(***************************************************************************)

\* Bound of the feature inputs.
MaxEvRows == 2

\* The eigenvalues offered.
EvVals == {0, 1, 2, 4}

EvArrays == UNION {[1..n -> [Axes -> EvVals]] : n \in 1..MaxEvRows}

Frac(num, den) == [num |-> num, den |-> den]

\* (ev[:,0] - ev[:,2]) / ev[:,0]
Anisotropy(ev) == [n \in DOMAIN ev |-> Frac(ev[n][1] - ev[n][3], ev[n][1])]

\* A mutant of Planarity: the quotient taken over ev[:,1].
Planarity_OverSecond(ev) == [n \in DOMAIN ev |-> Frac(ev[n][2] - ev[n][3], ev[n][2])]

\* (ev[:,1] - ev[:,2]) / ev[:,0]
Planarity(ev) == [n \in DOMAIN ev |-> Frac(ev[n][2] - ev[n][3], ev[n][1])]

\* (ev[:,0] - ev[:,1]) / ev[:,0]
Linearity(ev) == [n \in DOMAIN ev |-> Frac(ev[n][1] - ev[n][2], ev[n][1])]

NoFeatures ==
    [status |-> "none", ev |-> <<>>, anisotropy |-> <<>>, planarity |-> <<>>,
     linearity |-> <<>>]

FeatureInputs == {[NoFeatures EXCEPT !.status = "ev", !.ev = ev] : ev \in EvArrays}

\* The three scalar fields computed on ev.
EigenFeatures ==
    /\ features.status = "ev"
    /\ features' = [features EXCEPT !.status = "done",
                                    !.anisotropy = Anisotropy(features.ev),
                                    !.planarity = Planarity(features.ev),
                                    !.linearity = Linearity(features.ev)]
    /\ UNCHANGED <<voxelgrid, octree, early_stop, level_sf, neighbourhood, eigen,
                   ror, sor, pt, pyntcloud, box, normals>>


(***************************************************************************)
(* The bounding boxes of the two constructors (voxelgrid.py:42-52 and      *)
(* octree.py:16-26) as functions of the points and of bb_cuboid, on the    *)
(* points of the Octree section (for the VoxelGrid in units of 0.001).     *)
(***************************************************************************)

NoBox ==
    [status |-> "none", points |-> <<>>, bb_cuboid |-> FALSE,
     voxelgrid |-> <<>>, octree |-> <<>>]

BoxInputs ==
    {[NoBox EXCEPT !.status = "points", !.points = points, !.bb_cuboid = bb_cuboid] :
        points \in OctPointSeqs, bb_cuboid \in BOOLEAN}

\* <<xyzmin, xyzmax>> as VoxelGrid.__init__ and as Octree.__init__ set them.
BoundingBoxes ==
    /\ box.status = "points"
    /\ box' = [box EXCEPT !.status = "done",
                          !.voxelgrid = BoundingBox(box.points, box.bb_cuboid),
                          !.octree = OctBoundingBox(box.points, box.bb_cuboid)]
    /\ UNCHANGED <<voxelgrid, octree, early_stop, level_sf, neighbourhood, eigen,
                   ror, sor, pt, pyntcloud, features, normals>>


(***************************************************************************)
(*                     PyntCloud.add_normals                               *)
(*                                                                         *)
(* add_normals (pyntcloud.py:126-159) as a function of what                *)
(* np.linalg.eig(vCov(neighbors)) returned: a row of three eigenvalues and *)
(* a matrix of three column eigenvectors for each point.  The element is   *)
(* an attribute of the cloud that the caller names; getattr raises         *)
(* AttributeError when the cloud has no such attribute.                    *)
(***************************************************************************)

\* Bound of the add_normals inputs.
MaxNormalRows == 2

NoNormals ==
    [status |-> "none", eigenvalues |-> <<>>, eigenvectors |-> <<>>,
     argsort |-> <<>>, and_curvature |-> FALSE,
     nx |-> <<>>, ny |-> <<>>, nz |-> <<>>, curvature |-> <<>>]

NormalInputs ==
    UNION {{[NoNormals EXCEPT !.status = "eig", !.eigenvalues = w, !.eigenvectors = V] :
               w \in [1..n -> [Axes -> EigVals]], V \in [1..n -> EigMatrices]} :
           n \in 1..MaxNormalRows}

\* A mutant of NormalsFilled: row sort of the matrix instead of column sort.
NormalsFilled_Rows(eigenvectors, sort) ==
    [n \in DOMAIN eigenvectors |-> eigenvectors[n][sort[n]]]

\* Lines 139-145: normals[sort == j] = eigenvectors[sort == j][:,:,j] for
\* j = 0, 1, 2 (here 1, 2, 3).
NormalsFilled(eigenvectors, sort) ==
    [n \in DOMAIN eigenvectors |->
        IF sort[n] = 1 THEN ColumnOf(eigenvectors[n], 1)
        ELSE IF sort[n] = 2 THEN ColumnOf(eigenvectors[n], 2)
        ELSE ColumnOf(eigenvectors[n], 3)]

\* eigenvalues.sort(): every row in ascending order.
RowsSorted(eigenvalues, argsort) ==
    [n \in DOMAIN eigenvalues |-> [c \in Axes |-> eigenvalues[n][argsort[n][c]]]]

\* eigenvalues[:,0] / np.sum(eigenvalues, axis=1) on the sorted rows.
CurvatureOfSorted(sorted) ==
    [n \in DOMAIN sorted |-> Frac(sorted[n][1], sorted[n][1] + sorted[n][2] + sorted[n][3])]

\* add_normals on a cloud that has the element or not, argsort being what
\* eigenvalues.argsort() gave.
AddNormalsOf(nm, has_element, and_curvature, argsort) ==
    IF ~has_element THEN [nm EXCEPT !.status = "AttributeError"]
    ELSE LET sort == [n \in DOMAIN argsort |-> argsort[n][1]]
             filled == NormalsFilled(nm.eigenvectors, sort)
         IN  [nm EXCEPT
                 !.status = "ok",
                 !.argsort = argsort,
                 !.and_curvature = and_curvature,
                 !.curvature = IF and_curvature
                               THEN CurvatureOfSorted(RowsSorted(nm.eigenvalues, argsort))
                               ELSE <<>>,
                 !.nx = [n \in DOMAIN filled |-> filled[n][1]],
                 !.ny = [n \in DOMAIN filled |-> filled[n][2]],
                 !.nz = [n \in DOMAIN filled |-> filled[n][3]]]

AddNormals ==
    /\ normals.status = "eig"
    /\ \E has_element \in BOOLEAN, and_curvature \in BOOLEAN :
       \E argsort \in SortResults(normals.eigenvalues, Len(normals.eigenvalues)) :
           normals' = AddNormalsOf(normals, has_element, and_curvature, argsort)
    /\ UNCHANGED <<voxelgrid, octree, early_stop, level_sf, neighbourhood, eigen,
                   ror, sor, pt, pyntcloud, features, box>>

\* Nothing has been called on the filters, the cloud, the features or the
\* bounding boxes.
Idle ==
    /\ ror = NoRor
    /\ sor = NoSor
    /\ pt = NoPt
    /\ pyntcloud = NoPyntCloud
    /\ features = NoFeatures
    /\ box = NoBox
    /\ normals = NoNormals

(***************************************************************************)
(*                           Specifications                                *)
(***************************************************************************)

InitVoxelGrid ==
    /\ voxelgrid = NoVoxelGrid
    /\ octree = NoOctree
    /\ early_stop = Unbound
    /\ level_sf = NoLevelSf
    /\ neighbourhood = NoNeighbourhood
    /\ eigen = NoEigen
    /\ Idle

NextVoxelGrid == VoxelGridNew \/ VoxelGridBuild

SpecVoxelGrid == InitVoxelGrid /\ [][NextVoxelGrid]_vars

InitOctree ==
    /\ voxelgrid = NoVoxelGrid
    /\ octree = NoOctree
    /\ early_stop \in StopBindings
    /\ level_sf = NoLevelSf
    /\ neighbourhood = NoNeighbourhood
    /\ eigen = NoEigen
    /\ Idle

NextOctree == OctreeNew \/ OctreeBuildLevel \/ OctreeLevel

SpecOctree == InitOctree /\ [][NextOctree]_vars

InitNeigh == InitVoxelGrid

NextNeigh == NeighbourhoodNew

SpecNeigh == InitNeigh /\ [][NextNeigh]_vars

InitEigen ==
    /\ voxelgrid = NoVoxelGrid
    /\ octree = NoOctree
    /\ early_stop = Unbound
    /\ level_sf = NoLevelSf
    /\ neighbourhood = NoNeighbourhood
    /\ eigen \in EigenInputs
    /\ Idle

NextEigen == EigenDecompositionSort

SpecEigen == InitEigen /\ [][NextEigen]_vars

InitRor == InitVoxelGrid

NextRor == CleanROR

SpecRor == InitRor /\ [][NextRor]_vars

\* filter_SOR is called on a constructed object: the Neighbourhoods that
\* Neighbourhood(kdtree, k, eigen=False) returns.
InitSor ==
    /\ voxelgrid = NoVoxelGrid
    /\ octree = NoOctree
    /\ early_stop = Unbound
    /\ level_sf = NoLevelSf
    /\ neighbourhood \in
          {Queried(points, k, rows) :
              <<points, k, rows>> \in
                  UNION {UNION {{<<points, k, rows>> :
                                   rows \in QueryResults(points, Len(points), k)} :
                                k \in 2..(MaxNbPoints + 1)} :
                         points \in NbPointSeqs}}
    /\ eigen = NoEigen
    /\ Idle

NextSor == FilterSOR

SpecSor == InitSor /\ [][NextSor]_vars

InitPt == InitVoxelGrid

NextPt == CleanPT

SpecPt == InitPt /\ [][NextPt]_vars

InitCloud == InitVoxelGrid

NextCloud == PyntCloudNew

SpecCloud == InitCloud /\ [][NextCloud]_vars

InitFeatures ==
    /\ voxelgrid = NoVoxelGrid
    /\ octree = NoOctree
    /\ early_stop = Unbound
    /\ level_sf = NoLevelSf
    /\ neighbourhood = NoNeighbourhood
    /\ eigen = NoEigen
    /\ ror = NoRor
    /\ sor = NoSor
    /\ pt = NoPt
    /\ pyntcloud = NoPyntCloud
    /\ features \in FeatureInputs
    /\ box = NoBox
    /\ normals = NoNormals

NextFeatures == EigenFeatures

SpecFeatures == InitFeatures /\ [][NextFeatures]_vars

InitBox ==
    /\ voxelgrid = NoVoxelGrid
    /\ octree = NoOctree
    /\ early_stop = Unbound
    /\ level_sf = NoLevelSf
    /\ neighbourhood = NoNeighbourhood
    /\ eigen = NoEigen
    /\ ror = NoRor
    /\ sor = NoSor
    /\ pt = NoPt
    /\ pyntcloud = NoPyntCloud
    /\ features = NoFeatures
    /\ box \in BoxInputs
    /\ normals = NoNormals

NextBox == BoundingBoxes

SpecBox == InitBox /\ [][NextBox]_vars

InitNormals ==
    /\ voxelgrid = NoVoxelGrid
    /\ octree = NoOctree
    /\ early_stop = Unbound
    /\ level_sf = NoLevelSf
    /\ neighbourhood = NoNeighbourhood
    /\ eigen = NoEigen
    /\ ror = NoRor
    /\ sor = NoSor
    /\ pt = NoPt
    /\ pyntcloud = NoPyntCloud
    /\ features = NoFeatures
    /\ box = NoBox
    /\ normals \in NormalInputs

NextNormals == AddNormals

SpecNormals == InitNormals /\ [][NextNormals]_vars

(***************************************************************************)
(*                         VoxelGrid properties                            *)
(***************************************************************************)

\* build() has set self.structure (whether or not np.bincount then raised).
HasStructure == voxelgrid.status \in {"built", "ValueError"}

NX == voxelgrid.shape[1]

NY == voxelgrid.shape[2]

NZ == voxelgrid.shape[3]

\* Every axis is split by a bin count.
AllInt(x_y_z) == \A a \in Axes : x_y_z[a].kind = "int"

\* C1: for every point of a built VoxelGrid with shape (nx, ny, nz), whatever
\* the bin counts of the three axes, the stored linear voxel id is
\* ix + nx*(iy + ny*iz), (ix, iy, iz) being the point's stored voxel indices.
C1_LinearIdFormula ==
    (HasStructure /\ AllInt(voxelgrid.x_y_z)) =>
        \A p \in DOMAIN voxelgrid.structure :
            LET s == voxelgrid.structure[p]
            IN  s[4] = s[1] + NX * (s[2] + NY * s[3])

\* C2: after construction with a positive integer bin count per axis, with or
\* without the cube adjustment, every point's linear voxel id lies in
\* [0, nx*ny*nz).
C2_LinearIdInRange ==
    (HasStructure /\ AllInt(voxelgrid.x_y_z)) =>
        \A p \in DOMAIN voxelgrid.structure :
            /\ 0 <= voxelgrid.structure[p][4]
            /\ voxelgrid.structure[p][4] < NX * NY * NZ

RECURSIVE SumTo(_, _)
SumTo(f, n) == IF n < 0 THEN 0 ELSE f[n] + SumTo(f, n - 1)

\* C3: after build on N points (here: of a grid split by bin counts) the
\* occupancy vector has exactly nx*ny*nz entries, entry v is the number of
\* points whose linear id is v, and the entries sum to N.
C3_OccupancyVector ==
    (voxelgrid.status = "built" /\ AllInt(voxelgrid.x_y_z)) =>
        /\ DOMAIN voxelgrid.vector = 0..(NX * NY * NZ - 1)
        /\ \A v \in DOMAIN voxelgrid.vector :
              voxelgrid.vector[v] =
                  Cardinality({p \in DOMAIN voxelgrid.structure :
                                  voxelgrid.structure[p][4] = v})
        /\ SumTo(voxelgrid.vector, NX * NY * NZ - 1) = Len(voxelgrid.points)

\* C4: on an axis split by an integer bin count n every point's voxel index
\* lies in 0..n-1; the points at the minimum and at the maximum of the cloud
\* get a valid bin, never -1 or n.
C4_IntAxisIndexInRange ==
    HasStructure =>
        \A a \in Axes :
            voxelgrid.x_y_z[a].kind = "int" =>
                \A p \in DOMAIN voxelgrid.structure :
                    voxelgrid.structure[p][a] \in 0..(voxelgrid.x_y_z[a].n - 1)

\* A grid with an axis of at least two bins on which the lowest point sits in
\* the first bin and the highest point in the last one.
C4_Witness ==
    /\ voxelgrid.status = "built"
    /\ \E a \in Axes :
          /\ voxelgrid.x_y_z[a].kind = "int"
          /\ voxelgrid.x_y_z[a].n >= 2
          /\ \E p, q \in DOMAIN voxelgrid.points :
                /\ voxelgrid.points[p][a] = MinOf(Column(voxelgrid.points, a))
                /\ voxelgrid.points[q][a] = MaxOf(Column(voxelgrid.points, a))
                /\ voxelgrid.structure[p][a] = 0
                /\ voxelgrid.structure[q][a] = voxelgrid.x_y_z[a].n - 1

\* C5: on an axis given as m explicit edges every point's voxel index is the
\* position of the edge immediately below its coordinate clamped into
\* [0, m-2]: 0 for a point below the first edge, m-2 for one above the last.
C5_ArrayAxisIndexClamped ==
    HasStructure =>
        \A a \in Axes :
            voxelgrid.x_y_z[a].kind = "array" =>
                \A p \in DOMAIN voxelgrid.structure :
                    voxelgrid.structure[p][a] =
                        ClipValue(SearchSorted(voxelgrid.segments[a],
                                               voxelgrid.points[p][a]) - 1,
                                  0, Len(voxelgrid.x_y_z[a].edges) - 2)

(***************************************************************************)
(*                          Octree properties                              *)
(***************************************************************************)

\* build() has ended, by returning or by raising.
BuildEnded == octree.status \in {"built", "NameError"}

\* The number of levels (columns of structure) the octree holds.
Kept == IF octree.points = <<>> THEN 0 ELSE Len(octree.structure[1])

\* The claimed early-stop test of level i: the mean size of the groups of
\* points sharing the codes of levels 0..i is below the threshold t.
ClaimedStop(i, t) ==
    Len(octree.structure) < t * Cardinality(Prefixes(octree.structure, i + 1))

\* C6: during build with early-stop threshold t, at every level i with
\* 0 <= i < max_level (levels 0 and 1 included) the points are grouped by their
\* codes of levels 0..i right after level i is recorded, and if the mean group
\* size is below t the build stops at once, the structure is cut to levels
\* 0..i and the effective depth is recorded as i.  Stated of the build's
\* result: the build returns; it stopped early exactly at the first level
\* whose grouping has a mean below t, and not at all when there is none.
C6_EarlyStopAtFirstLevelBelow ==
    BuildEnded =>
        /\ octree.status = "built"
        /\ LET t == octree.early_stop_arg
           IN  IF octree.id_level < octree.max_level
               THEN /\ Kept = octree.id_level + 1
                    /\ ClaimedStop(octree.id_level, t)
                    /\ \A j \in 0..(octree.id_level - 1) : ~ClaimedStop(j, t)
               ELSE /\ Kept = octree.max_level
                    /\ \A j \in 0..(octree.max_level - 1) : ~ClaimedStop(j, t)

C9_NeighboursExcludeSelf ==
    (neighbourhood.status = "built" /\ neighbourhood.k_arg <= Len(neighbourhood.points)) =>
        \A q \in DOMAIN neighbourhood.points :
            /\ Len(neighbourhood.indices[q]) = neighbourhood.k_arg - 1
            /\ \A a \in DOMAIN neighbourhood.indices[q] :
                   /\ neighbourhood.indices[q][a] \in DOMAIN neighbourhood.points
                   /\ neighbourhood.indices[q][a] # q
            /\ \A a, b \in DOMAIN neighbourhood.indices[q] :
                   neighbourhood.indices[q][a] = neighbourhood.indices[q][b] => a = b
            /\ neighbourhood.i[q][1] = q
            /\ neighbourhood.d[q][1] = 0

\* C10: after the sorting of eigen_decomposition, for every point,
\* eig_val1 >= eig_val2 >= eig_val3, and one permutation of the three
\* positions gives both the sorted eigenvalues from the eigenvalues and the
\* sorted eigenvectors from the eigenvector columns.
C10_EigenSortedDescending ==
    eigen.status = "sorted" =>
        \A n \in DOMAIN eigen.eigenvalues :
            /\ eigen.out.eig_val1[n] >= eigen.out.eig_val2[n]
            /\ eigen.out.eig_val2[n] >= eigen.out.eig_val3[n]
            /\ \E s \in Perms3 :
                   /\ eigen.out.eig_val1[n] = eigen.eigenvalues[n][s[1]]
                   /\ eigen.out.eig_val2[n] = eigen.eigenvalues[n][s[2]]
                   /\ eigen.out.eig_val3[n] = eigen.eigenvalues[n][s[3]]
                   /\ eigen.out.eig_vec1[n] = ColumnOf(eigen.eigenvectors[n], s[1])
                   /\ eigen.out.eig_vec2[n] = ColumnOf(eigen.eigenvectors[n], s[2])
                   /\ eigen.out.eig_vec3[n] = ColumnOf(eigen.eigenvectors[n], s[3])

\* The sorting has been applied to a point whose eigenvalues are distinct
\* and not in descending order, with eigenvectors that are not the identity.
C10_Witness ==
    /\ eigen.status = "sorted"
    /\ \E n \in DOMAIN eigen.eigenvalues :
           /\ eigen.eigenvalues[n] = <<1, 3, 0>>
           /\ eigen.eigenvectors[n] = PermMatrix(<<2, 3, 1>>)
           /\ eigen.out.eig_val1[n] = 3
           /\ eigen.out.eig_vec1[n] = <<0, 0, 1>>

(***************************************************************************)
(*                          Filter properties                              *)
(***************************************************************************)

\* C11: radius outlier removal returns a keep-mask of length N whose entry i
\* is true exactly when none of the k distance slots of point i is
\* unreachable, and clean_ROR keeps exactly the rows whose slots are all
\* reachable.
C11_RorKeepMask ==
    ror.status = "ok" =>
        /\ Len(ror.ror_filter) = Len(ror.points)
        /\ \A q \in DOMAIN ror.points :
              ror.ror_filter[q] <=> (\A a \in 1..ror.k : ror.distances[q][a] # Inf)
        /\ \A q \in DOMAIN ror.points :
              (\E j \in DOMAIN ror.vertex : ror.vertex[j] = q)
                  <=> (\A a \in 1..ror.k : ror.distances[q][a] # Inf)

\* The cloud has several points and every two of them are farther apart
\* than the radius.
AllIsolated ==
    /\ Len(ror.points) >= 2
    /\ \A p, q \in DOMAIN ror.points :
           p # q => 2 * Distance(ror.points[p], ror.points[q]) > ror.r

\* C12: on a cloud whose points are all farther apart than r, radius outlier
\* removal with k >= 2 returns a mask that marks every point for removal
\* (false), and clean_ROR keeps no row.  (The case k = 1 of the claim ends in
\* the error of RorApplied.)
C12_RorCountsOnlyOthers ==
    (ror.status # "none" /\ ror.k >= 2 /\ AllIsolated) =>
        /\ ror.status = "ok"
        /\ \A q \in DOMAIN ror.points : ~ror.ror_filter[q]
        /\ ror.vertex = <<>>

\* C13: filter_SOR on a built Neighbourhood returns a mask of length N whose
\* entry i is true exactly when |z_i| < z_max, z_i being the z-score (sample
\* standard deviation) of the mean distance of point i to its stored
\* neighbours; stated on the neighbourhoods without a missing neighbour.
C13_SorKeepMask ==
    (sor.status # "none" /\ neighbourhood.k_arg <= Len(neighbourhood.points)) =>
        /\ sor.status = "ok"
        /\ Len(sor.sor_filter) = Len(neighbourhood.points)
        /\ LET N   == Len(neighbourhood.points)
               sum == [q \in 1..N |-> SumOf(neighbourhood.distances[q])]
               dev == [q \in 1..N |-> N * sum[q] - SumOf(sum)]
               var == SumOf([q \in 1..N |-> dev[q] * dev[q]])
           IN  \A q \in 1..N :
                  sor.sor_filter[q] <=>
                      (var > 0 /\ 4 * (N - 1) * dev[q] * dev[q] < sor.z_max * sor.z_max * var)

\* The point q of the filtered cloud lies within every bound the call gave.
WithinGiven(q) ==
    \A a \in Axes :
        /\ pt.min[a].kind = "fin" => pt.min[a].v <= pt.points[q][a]
        /\ pt.max[a].kind = "fin" => pt.points[q][a] <= pt.max[a].v

\* C14: clean_PT computes a mask of length N whose entry i is true exactly
\* when point i is within every given bound, both ends inclusive, a bound
\* left out excluding nothing; the cloud keeps exactly those rows.
C14_PassThroughMask ==
    pt.status = "ok" =>
        /\ Len(pt.filtered) = Len(pt.points)
        /\ \A q \in DOMAIN pt.points : pt.filtered[q] <=> WithinGiven(q)
        /\ \A q \in DOMAIN pt.points :
              (\E j \in DOMAIN pt.vertex : pt.vertex[j] = q) <=> WithinGiven(q)

\* Bounds on x and y only: a point on the bounds is kept whatever its z (here
\* below 0), and a point outside them is dropped.
C14_Witness ==
    /\ pt.status = "ok"
    /\ pt.min = <<Fin(1), Fin(1), Absent>>
    /\ pt.max = <<Fin(1), Fin(1), Absent>>
    /\ pt.points = <<(<<1, 1, -1>>), (<<0, 1, 1>>)>>
    /\ pt.filtered = <<TRUE, FALSE>>
    /\ pt.vertex = <<1>>

\* C15: a request for at least as many neighbours as there are points
\* (k - 1 >= N) ends in an error and produces no Neighbourhood, and no
\* constructed Neighbourhood holds a placeholder index or an infinite
\* distance in a neighbour slot.
C15_TooManyNeighboursIsError ==
    /\ (neighbourhood.status # "none"
        /\ neighbourhood.k_arg - 1 >= Len(neighbourhood.points))
           => neighbourhood.status # "built"
    /\ neighbourhood.status = "built" =>
           \A q \in DOMAIN neighbourhood.points :
               \A a \in DOMAIN neighbourhood.indices[q] :
                   /\ neighbourhood.indices[q][a] <= Len(neighbourhood.points)
                   /\ neighbourhood.distances[q][a] # Inf

\* C16: a request for one neighbour after self-exclusion (k = 2), on a cloud
\* with two other points for every point, is promoted: the Neighbourhood
\* built has k = 2 and two stored neighbours for every point.
C16_OneNeighbourPromoted ==
    (neighbourhood.status = "built" /\ neighbourhood.k_arg = 2
     /\ Len(neighbourhood.points) >= 3) =>
        /\ neighbourhood.k = 2
        /\ \A q \in DOMAIN neighbourhood.points : Len(neighbourhood.indices[q]) = 2

(***************************************************************************)
(*                         PyntCloud properties                            *)
(***************************************************************************)

\* C17: a construction without a "points" entry, or with a points table that
\* lacks one of the columns x, y, z, ends in an error with no structure list,
\* no attribute and no centroid set.
C17_MissingPointsRejected ==
    (pyntcloud.status # "none"
     /\ ("points" \notin pyntcloud.keys
         \/ (pyntcloud.points.kind = "DataFrame"
             /\ \E c \in {"x", "y", "z"} : c \notin pyntcloud.points.columns))) =>
        /\ pyntcloud.status \in {"ValueError", "AttributeError", "TypeError", "KeyError"}
        /\ ~pyntcloud.lists_set
        /\ pyntcloud.kdtrees = {} /\ pyntcloud.octrees = {} /\ pyntcloud.voxelgrids = {}
        /\ pyntcloud.attributes = {}
        /\ pyntcloud.centroid = <<>>

\* A construction with structures and attributes among its keys and a points
\* table that has x and y but no z has been rejected.
C17_Witness ==
    /\ pyntcloud.status = "ValueError"
    /\ pyntcloud.keys = CloudKeys
    /\ pyntcloud.points.kind = "DataFrame"
    /\ pyntcloud.points.columns = {"x", "y", "red"}

(***************************************************************************)
(*                          Feature properties                             *)
(***************************************************************************)

\* The quotients a and b are the same number (their denominators not 0).
SameQuotient(a, b) == a.num * b.den = b.num * a.den

\* The sum of the quotients a and b.
QuotientSum(a, b) == Frac(a.num * b.den + b.num * a.den, a.den * b.den)

\* C18: for every row with eig1 >= eig2 >= eig3 >= 0 and eig1 > 0 the
\* features are anisotropy = (eig1 - eig3) / eig1, planarity =
\* (eig2 - eig3) / eig1 and linearity = (eig1 - eig2) / eig1, and
\* anisotropy = planarity + linearity.
C18_AnisotropyIsPlanarityPlusLinearity ==
    features.status = "done" =>
        \A n \in DOMAIN features.ev :
            LET e == features.ev[n]
            IN  (e[1] >= e[2] /\ e[2] >= e[3] /\ e[3] >= 0 /\ e[1] > 0) =>
                    /\ features.anisotropy[n].den # 0
                    /\ features.planarity[n].den # 0
                    /\ features.linearity[n].den # 0
                    /\ SameQuotient(features.anisotropy[n], Frac(e[1] - e[3], e[1]))
                    /\ SameQuotient(features.planarity[n], Frac(e[2] - e[3], e[1]))
                    /\ SameQuotient(features.linearity[n], Frac(e[1] - e[2], e[1]))
                    /\ SameQuotient(features.anisotropy[n],
                                    QuotientSum(features.planarity[n], features.linearity[n]))

\* The features of the triplet (4, 2, 1) have been computed: 3/4, 1/4, 1/2.
C18_Witness ==
    /\ features.status = "done"
    /\ \E n \in DOMAIN features.ev :
          /\ features.ev[n] = <<4, 2, 1>>
          /\ SameQuotient(features.anisotropy[n], Frac(3, 4))
          /\ SameQuotient(features.planarity[n], Frac(1, 4))
          /\ SameQuotient(features.linearity[n], Frac(1, 2))

(***************************************************************************)
(*                        Bounding-box properties                          *)
(***************************************************************************)

\* The box bb = <<lo, hi>> is the cube of the box <<ulo, uhi>>: its sides are
\* all as long as the longest side of <<ulo, uhi>>, it has the centre of
\* <<ulo, uhi>> on every axis, and it contains <<ulo, uhi>>.
CubeOf(bb, ulo, uhi) ==
    \A a \in Axes :
        /\ bb[2][a] - bb[1][a] = MaxOf({uhi[b] - ulo[b] : b \in Axes})
        /\ bb[1][a] + bb[2][a] = ulo[a] + uhi[a]
        /\ bb[1][a] <= ulo[a]
        /\ uhi[a] <= bb[2][a]

\* C19: with bb_cuboid set the bounding box of the VoxelGrid and that of the
\* Octree are the cubes of their unadjusted boxes (the padded extremes of
\* the points for the VoxelGrid, the extremes for the Octree); with it unset
\* they are the unadjusted boxes.
C19_CubeBoundingBox ==
    box.status = "done" =>
        LET vlo == [a \in Axes |-> HalfUnits * (MinOf(Column(box.points, a)) - Eps)]
            vhi == [a \in Axes |-> HalfUnits * (MaxOf(Column(box.points, a)) + Eps)]
            olo == [a \in Axes |-> OctScale * MinOf(Column(box.points, a))]
            ohi == [a \in Axes |-> OctScale * MaxOf(Column(box.points, a))]
        IN  IF box.bb_cuboid
            THEN CubeOf(box.voxelgrid, vlo, vhi) /\ CubeOf(box.octree, olo, ohi)
            ELSE box.voxelgrid = <<vlo, vhi>> /\ box.octree = <<olo, ohi>>

\* The cube adjustment has been applied to points whose box has unequal
\* sides (3 on x and z, 1 on y), widening it on y on both ends.
C19_Witness ==
    /\ box.status = "done"
    /\ box.bb_cuboid
    /\ box.points = <<(<<0, 0, 0>>), (<<3, 0, 0>>), (<<2, 1, 3>>)>>
    /\ box.octree[1][2] < 0
    /\ box.voxelgrid[2][2] > HalfUnits * (1 + Eps)

(***************************************************************************)
(*                        Octant code properties                           *)
(***************************************************************************)

\* The number of levels whose codes build() has recorded so far.
RecordedLevels ==
    IF octree.status = "building" THEN octree.i
    ELSE IF octree.status = "NameError" THEN octree.i + 1
    ELSE IF octree.status = "built" THEN Len(octree.structure[1])
    ELSE 0

\* Bit a - 1 of an octant code: the side of axis a.
BitOf(code, a) == (code \div Pow2(a - 1)) % 2

\* The midpoint, on axis a, of the cell the point p is in when the codes of
\* column c are taken: the centre of the bounding box moved, for every
\* earlier column j, by the side / 2^(j+1) towards the side of its code.
RECURSIVE CellShift(_, _, _)
CellShift(p, a, j) ==
    IF j = 0 THEN 0
    ELSE CellShift(p, a, j - 1)
         + (2 * BitOf(octree.structure[p][j], a) - 1)
           * ((octree.xyzmax[a] - octree.xyzmin[a]) \div Pow2(j + 1))

CellMid(p, a, c) ==
    octree.xyzmin[a] + (octree.xyzmax[a] - octree.xyzmin[a]) \div 2
    + CellShift(p, a, c - 1)

\* 1 when the coordinate of p on axis a is strictly above the midpoint.
Above(p, a, c) == IF OctScale * octree.points[p][a] > CellMid(p, a, c) THEN 1 ELSE 0

\* C20: every recorded octant code is in 0..7 and is bx + 2*by + 4*bz, each
\* bit being 1 exactly when the coordinate of the point is strictly greater
\* than that of the midpoint of its current cell.
C20_OctantCodeBits ==
    \A p \in DOMAIN octree.points :
        \A c \in 1..RecordedLevels :
            /\ octree.structure[p][c] \in 0..7
            /\ octree.structure[p][c]
                   = Above(p, 1, c) + 2 * Above(p, 2, c) + 4 * Above(p, 3, c)

\* An octree of at least two levels has been built over a point that lies on
\* the midpoint of the box on x (lower side), above it on y and on z: code 6.
C20_Witness ==
    /\ octree.status = "built"
    /\ octree.points = <<(<<1, 0, 0>>), (<<3, 0, 0>>), (<<2, 1, 3>>)>>
    /\ ~octree.bb_cuboid
    /\ RecordedLevels >= 2
    /\ octree.structure[3][1] = 6
    /\ octree.structure[2][1] = 1

(***************************************************************************)
(*                        Node-id label order                              *)
(***************************************************************************)

\* The codes of point p that get_level_as_sf(level_sf.level) groups by.
GroupKey(p) == SubSeq(octree.structure[p], 1, level_sf.level)

\* The smallest point index of the group of p.
FirstOf(p) ==
    CHOOSE q \in DOMAIN octree.points :
        /\ GroupKey(q) = GroupKey(p)
        /\ \A r \in DOMAIN octree.points : GroupKey(r) = GroupKey(p) => q <= r

NeighbourhoodFields ==
    EigenSorted(normals.eigenvalues, normals.eigenvectors, normals.argsort)

\* C22: for every point the normal (nx, ny, nz) that add_normals stores is
\* the eigenvector column paired with a smallest eigenvalue, wherever that
\* eigenvalue stands in the unsorted decomposition, and is the eig_vec3 of
\* the Neighbourhood; the curvature stored is the smallest eigenvalue over
\* the sum of the three.
C22_NormalIsSmallestEigenvector ==
    normals.status = "ok" =>
        \A n \in DOMAIN normals.eigenvalues :
            LET w == normals.eigenvalues[n]
                normal == <<normals.nx[n], normals.ny[n], normals.nz[n]>>
            IN  /\ normal = NeighbourhoodFields.eig_vec3[n]
                /\ \E j \in Axes :
                       /\ \A c \in Axes : w[j] <= w[c]
                       /\ normal = ColumnOf(normals.eigenvectors[n], j)
                /\ normals.and_curvature =>
                       /\ normals.curvature[n].num = NeighbourhoodFields.eig_val3[n]
                       /\ \A c \in Axes : normals.curvature[n].num <= w[c]
                       /\ normals.curvature[n].den = w[1] + w[2] + w[3]

\* add_normals has stored normals and curvatures for two points whose
\* smallest eigenvalues stand at the third and at the second position.
C22_Witness ==
    /\ normals.status = "ok"
    /\ normals.and_curvature
    /\ normals.eigenvalues = <<(<<1, 3, 0>>), (<<3, 0, 1>>)>>
    /\ normals.eigenvectors = <<PermMatrix(<<2, 3, 1>>), PermMatrix(<<2, 3, 1>>)>>
    /\ <<normals.nx[1], normals.ny[1], normals.nz[1]>> = <<1, 0, 0>>
    /\ <<normals.nx[2], normals.ny[2], normals.nz[2]>> = <<0, 0, 1>>
    /\ normals.curvature[2] = Frac(0, 4)

(***************************************************************************)
(*                     Linear id as voxel identity                         *)
(***************************************************************************)

\* C23: in a built VoxelGrid (here: split by bin counts) two points have the
\* same linear voxel id if and only if they have the same index triple
\* (ix, iy, iz), whatever the shape of the grid.
C23_LinearIdIdentifiesVoxel ==
    (HasStructure /\ AllInt(voxelgrid.x_y_z)) =>
        \A p, q \in DOMAIN voxelgrid.structure :
            LET s == voxelgrid.structure[p]
                t == voxelgrid.structure[q]
            IN  (s[4] = t[4]) <=> (<<s[1], s[2], s[3]>> = <<t[1], t[2], t[3]>>)

(***************************************************************************)
(*                      Points stay in their cells                         *)
(***************************************************************************)

Abs(x) == IF x < 0 THEN -x ELSE x

\* The half extent of the bounding box on axis a.
HalfExtent(a) == (octree.xyzmax[a] - octree.xyzmin[a]) \div 2

\* C24: at every moment of the build, with L the number of levels processed,
\* on every axis the half extent of the current cells is that of the bounding
\* box divided by 2^L, the midpoint kept for a point is the centre of the
\* cell its L codes describe, and the point lies no further from it than
\* that half extent.
C24_PointStaysInCell ==
    octree.status \in {"building", "built", "NameError"} =>
        \A p \in DOMAIN octree.points : \A a \in Axes :
            /\ octree.level_ptp[a] * Pow2(RecordedLevels) = HalfExtent(a)
            /\ octree.mid_points[p][a] = CellMid(p, a, RecordedLevels + 1)
            /\ Abs(OctScale * octree.points[p][a] - octree.mid_points[p][a])
                   <= octree.level_ptp[a]

\* Two levels or more have been processed for a point that lay on the
\* midpoint of the box on x, and now lies on the face of its cell, and for a
\* point strictly inside its cell.
C24_Witness ==
    /\ octree.status \in {"building", "built"}
    /\ octree.points = <<(<<1, 0, 0>>), (<<0, 3, 1>>), (<<2, 1, 3>>)>>
    /\ ~octree.bb_cuboid
    /\ RecordedLevels >= 2
    /\ octree.level_ptp[1] > 0
    /\ Abs(OctScale * 1 - octree.mid_points[1][1]) = octree.level_ptp[1]
    /\ Abs(OctScale * 1 - octree.mid_points[2][3]) < octree.level_ptp[3]

====
